---- MODULE Spec2Model ----
(***************************************************************************)
(* A model of rethinkengine/document.py: the BaseDocument metaclass that   *)
(* builds a class's schema (_fields) and configuration (Meta), and the     *)
(* Document instance with its dirty-tracked storage (_data), its instance  *)
(* dictionary, validate(), _doc, save() and delete().                      *)
(*                                                                         *)
(* Two specifications:                                                     *)
(*   SpecBuild  class definitions run through BaseDocument.__new__         *)
(*   Spec       one Document instance of a class built by the metaclass,   *)
(*              driven by attribute assignments, save() and delete()       *)
(***************************************************************************)
EXTENDS Integers, Sequences, FiniteSets, TLC

\* ------------------------------------------------------------------------
\* Bounds
\* ------------------------------------------------------------------------

\* Number of classes defined below the root Document type in one behaviour.
MaxClasses == 2

\* Longest generated_keys list a storage result carries.
MaxGenKeys == 2

\* ------------------------------------------------------------------------
\* Python values
\* ------------------------------------------------------------------------

\* None.
None == "None"

\* str.lower() on one character; a class name is a sequence of characters.
LowerChr(c) ==
    CASE c = "A" -> "a"
      [] c = "B" -> "b"
      [] OTHER -> c

\* str.lower().
Lower(s) == [i \in DOMAIN s |-> LowerChr(s[i])]

\* ------------------------------------------------------------------------
\* OrderedDict, as a sequence of <<key, value>> pairs with distinct keys
\* ------------------------------------------------------------------------

OdKeys(od) == {od[i][1] : i \in DOMAIN od}

OdHas(od, k) == k \in OdKeys(od)

OdGet(od, k) == od[CHOOSE i \in DOMAIN od : od[i][1] = k][2]

\* od[k] = v: an existing key keeps its position, a new key is appended.
OdSet(od, k, v) ==
    IF OdHas(od, k)
    THEN [i \in DOMAIN od |-> IF od[i][1] = k THEN <<k, v>> ELSE od[i]]
    ELSE Append(od, <<k, v>>)

\* ------------------------------------------------------------------------
\* Schema builder: BaseDocument.__new__
\* ------------------------------------------------------------------------

\* Kinds of field descriptor.
ObjectIdField == "ObjectIdField"
StringField == "StringField"
ReferenceField == "ReferenceField"

\* The module-level Meta class: its public attributes and their values.
MetaDefaults == (("order_by" :> None) @@ ("primary_key_field" :> "id"))

\* getattr(meta, k) on a configuration class deriving from Meta whose own
\* attributes are the function own.
MetaGet(own, k) == IF k \in DOMAIN own THEN own[k] ELSE MetaDefaults[k]

\* sorted(members, key=_creation_order): members is a set of descriptors
\* [name, kind, order]; the result lists them by ascending creation order.
RECURSIVE SortByCreation(_)
SortByCreation(members) ==
    IF members = {} THEN <<>>
    ELSE LET m == CHOOSE x \in members : \A y \in members : x.order <= y.order
         IN <<m>> \o SortByCreation(members \ {m})

\* for field_name, field in fields: _fields[field_name] = field
RECURSIVE InsertFields(_, _)
InsertFields(od, fields) ==
    IF fields = <<>> THEN od
    ELSE InsertFields(OdSet(od, Head(fields).name, Head(fields).kind), Tail(fields))

\* The root Document type: object is among its bases, so the metaclass
\* returns it untouched, without _fields and without Meta.
RootDocument ==
    [name |-> <<"D">>, root |-> TRUE, hasMeta |-> FALSE,
     fields |-> <<>>, Meta |-> <<>>]

\* The public attributes dir(new_class.Meta) finds: those of the Meta block
\* of the class body when it has one, else those of the Meta inherited from
\* the base, which derives from the module-level Meta.
MetaData(base, body) ==
    IF body.hasMeta THEN body.Meta
    ELSE IF base.hasMeta
         THEN [k \in DOMAIN base.Meta \cup DOMAIN MetaDefaults |-> MetaGet(base.Meta, k)]
         ELSE <<>>

\* The class's _fields: the body's _fields when it binds one, else a fresh
\* OrderedDict; then id, then the declared descriptors in creation order.
BuildFields(body) ==
    InsertFields(OdSet(body.seed, "id", ObjectIdField), SortByCreation(body.members))

\* The class's Meta: the user's values, and table_name defaulted to the
\* lowercased class name when meta_data has none.
BuildMeta(name, base, body) ==
    LET meta_data == MetaData(base, body)
    IN IF "table_name" \in DOMAIN meta_data
       THEN meta_data
       ELSE meta_data @@ ("table_name" :> Lower(name))

\* BaseDocument.__new__(mcs, name, bases, attrs) for a class below Document.
BuildClass(name, base, body) ==
    [name |-> name, root |-> FALSE, hasMeta |-> TRUE,
     fields |-> BuildFields(body),
     Meta |-> BuildMeta(name, base, body)]

\* ------------------------------------------------------------------------
\* Class bodies
\* ------------------------------------------------------------------------

\* A field descriptor bound in a class body: its member name, its kind and
\* its _creation_order token.
Member(n, k, o) == [name |-> n, kind |-> k, order |-> o]

\* A class body: the descriptors it binds, its Meta block (hasMeta, and the
\* block's public attributes) and the _fields it binds (<<>> when it binds
\* none, which is what the fresh OrderedDict() is).
Body(members, hasMeta, meta, seed) ==
    [members |-> members, hasMeta |-> hasMeta, Meta |-> meta, seed |-> seed]

NoMeta == <<>>

\* Sets of descriptors a class body declares.
MemberSets ==
    { {},
      {Member("name", StringField, 0)},
      {Member("name", StringField, 2), Member("author", ReferenceField, 1)},
      {Member("id", StringField, 0)} }

\* Meta blocks a class body declares: none, an empty one, and blocks that
\* set one public attribute.
MetaBlocks ==
    { <<FALSE, NoMeta>>,
      <<TRUE, NoMeta>>,
      <<TRUE, ("table_name" :> <<"t">>)>>,
      <<TRUE, ("primary_key_field" :> "name")>> }

\* _fields bindings of a class body.
Seeds == { <<>>, << <<"name", StringField>>, <<"id", StringField>> >> }

Bodies == { Body(m, mb[1], mb[2], s) : m \in MemberSets, mb \in MetaBlocks, s \in Seeds }

ClassNames == { <<"A">>, <<"B", "a">> }

\* ------------------------------------------------------------------------
\* Field descriptors (rethinkengine.fields) and values
\* ------------------------------------------------------------------------

\* A timezone-less datetime and the same datetime with UTC attached.
NaiveDT == "datetime(naive)"
UtcDT == "datetime(utc)"

\* Identifiers the storage generates.
GeneratedKeys == {"g1", "g2"}

Strings == {"", "k1"} \cup GeneratedKeys

\* Values the caller assigns.
Values == {None, "", "k1", NaiveDT, UtcDT}

\* bool(value).
Truthy(v) == v \notin {None, ""}

\* isinstance(value, datetime.datetime) and not value.tzinfo
IsNaive(v) == v = NaiveDT

\* pytz.utc.localize(value)
Localize(v) == IF v = NaiveDT THEN UtcDT ELSE v

\* field._default
Default(kind) == IF kind = StringField THEN "" ELSE None

\* field.is_valid(value)
IsValid(kind, v) ==
    CASE kind = ObjectIdField -> v \in Strings
      [] kind = StringField -> v \in Strings
      [] kind = ReferenceField -> v \in Strings \cup {None}

\* field.to_rethink(value): the wire encoding of a value.
ToRethink(kind, v) == <<"wire", v>>

\* The wire document's null.
Null == <<"null", None>>

\* ------------------------------------------------------------------------
\* Document instance
\* ------------------------------------------------------------------------

VARIABLES
    defs,       \* SpecBuild: the class statements executed so far
    classes,    \* SpecBuild: the classes the metaclass returned for them
    cls,        \* the instance's class: its _fields and Meta
    _data,      \* the instance's field storage
    __dict__,   \* the instance's own attributes, other than _data and _dirty
    _dirty,     \* the dirty flag
    call,       \* the last call on the instance and what came of it
    prev,       \* the call before it, in brief
    saved       \* some save() has returned after a storage write

vars == <<defs, classes, cls, _data, __dict__, _dirty, call, prev, saved>>

buildVars == <<defs, classes>>
instVars == <<cls, _data, __dict__, _dirty, call, prev, saved>>

\* d[k] = v on a dict.
DictSet(d, k, v) == [x \in DOMAIN d \cup {k} |-> IF x = k THEN v ELSE d[x]]

\* self._fields.get(key): the descriptor's kind, or None.
FieldOf(c, key) == IF OdHas(c.fields, key) THEN OdGet(c.fields, key) ELSE None

\* The key a field is stored under: key += '_id' for a ReferenceField.
StorageKey(c, name) ==
    IF FieldOf(c, name) = ReferenceField THEN name \o "_id" ELSE name

\* Document._get_value
GetValue(c, d, name) ==
    LET key == StorageKey(c, name)
    IN IF key \in DOMAIN d THEN d[key] ELSE Default(FieldOf(c, name))

\* Differs with the new value compared to the stored value alone, as if by
\* self._data.get(key), without the field's default.
DiffersFromStored(c, d, key, value) ==
    LET k == StorageKey(c, key)
    IN (IF k \in DOMAIN d THEN d[k] ELSE None) # value

\* Whether Document.__setattr__ marks the instance dirty.
Differs(c, d, key, value) == GetValue(c, d, key) # value

\* Document.__setattr__ on the state <<_data, __dict__, _dirty>>.
SetAttr(c, st, key, value) ==
    IF FieldOf(c, key) # None
    THEN LET v == IF IsNaive(value) THEN Localize(value) ELSE value
             k == StorageKey(c, key)
         IN [data |-> DictSet(st.data, k, v),
             dict |-> DictSet(st.dict, k, v),
             dirty |-> IF Differs(c, st.data, key, v) THEN TRUE ELSE st.dirty]
    ELSE [data |-> st.data,
          dict |-> DictSet(st.dict, key, value),
          dirty |-> st.dirty]

\* Attribute lookup: the instance's own attribute when it has one, else
\* Document.__getattr__ (a declared field's effective value).
GetAttr(c, d, dict, key) ==
    IF key \in DOMAIN dict THEN dict[key] ELSE GetValue(c, d, key)

\* Document.validate: the first field whose value fails its validity
\* predicate, or None when validate() returns.
RECURSIVE FirstInvalid(_, _, _, _)
FirstInvalid(c, d, dict, fields) ==
    IF fields = <<>> THEN None
    ELSE LET name == Head(fields)[1]
             field == Head(fields)[2]
             value == GetAttr(c, d, dict, name)
         IN IF field = ObjectIdField /\ value = None
            THEN FirstInvalid(c, d, dict, Tail(fields))
            ELSE IF ~IsValid(field, value) THEN name
            ELSE FirstInvalid(c, d, dict, Tail(fields))

\* Validate with every ObjectIdField skipped, whatever its value.
ValidateSkipsId(c, d, dict) ==
    FirstInvalid(c, d, dict, SelectSeq(c.fields, LAMBDA f : f[2] # ObjectIdField))

Validate(c, d, dict) == FirstInvalid(c, d, dict, c.fields)

\* Document._doc: the wire document.
RECURSIVE BuildDoc(_, _, _, _)
BuildDoc(c, d, fields, doc) ==
    IF fields = <<>> THEN doc
    ELSE LET name == Head(fields)[1]
             field_obj == Head(fields)[2]
             pk == MetaGet(c.Meta, "primary_key_field")
             key == IF name = "id" THEN pk ELSE name
             value == GetValue(c, d, name)
             wkey == IF field_obj = ReferenceField THEN key \o "_id" ELSE key
         IN IF key = pk /\ value = None
            THEN BuildDoc(c, d, Tail(fields), doc)
            ELSE BuildDoc(c, d, Tail(fields),
                          DictSet(doc, wkey,
                                  IF ~Truthy(value) THEN Null
                                  ELSE ToRethink(field_obj, value)))

Doc(c, d) == BuildDoc(c, d, c.fields, <<>>)

\* ------------------------------------------------------------------------
\* Persistence: Document.save and Document.delete
\* ------------------------------------------------------------------------

\* Largest error count a storage result reports.
MaxErrors == 2

\* The generated_keys lists a storage result may carry; <<>> stands for a
\* result without generated_keys.
GenLists == UNION { [1..n -> GeneratedKeys] : n \in 0..MaxGenKeys }

\* What the storage answers to a write: an error count and, only for an
\* insert of a document without a primary key, generated keys.
Results(c, op, doc) ==
    { [errors |-> e, generated_keys |-> g] :
        e \in 0..MaxErrors,
        g \in IF op = "insert" /\ MetaGet(c.Meta, "primary_key_field") \notin DOMAIN doc
              THEN GenLists ELSE {<<>>} }

\* ShortCircuit that never returns early.
ShortCircuitNever(dirty) == FALSE

\* save(): if not self._dirty: return True
ShortCircuit(dirty) == ~dirty

\* save(): if self.id: update, else: insert
WriteOp(id) == IF Truthy(id) THEN "update" ELSE "insert"

\* save(): if result.get('errors', False) == 1: raise RqlOperationError
Raises(result) == result.errors = 1

\* save(): if 'generated_keys' in result: self._data['id'] = ...[0]
Adopt(d, result) ==
    IF result.generated_keys # <<>>
    THEN DictSet(d, "id", result.generated_keys[1])
    ELSE d

\* A call that touches no storage.
NoStorage == [storage |-> "none", key |-> None, doc |-> <<>>,
              errors |-> 0, generated_keys |-> <<>>]

Brief(cl) == [op |-> cl.op, outcome |-> cl.outcome,
              storage |-> cl.storage, pre_dirty |-> cl.pre_dirty]

\* Document.__init__(**kwargs), kwargs a sequence of <<name, value>>.
RECURSIVE Construct(_, _, _)
Construct(c, st, kwargs) ==
    IF kwargs = <<>> THEN st
    ELSE Construct(c, SetAttr(c, st, Head(kwargs)[1], Head(kwargs)[2]), Tail(kwargs))

New(c, kwargs) == Construct(c, [data |-> <<>>, dict |-> <<>>, dirty |-> TRUE], kwargs)

\* instance.<name> = value
Assign(name, value) ==
    LET st == SetAttr(cls, [data |-> _data, dict |-> __dict__, dirty |-> _dirty],
                      name, value)
    IN /\ _data' = st.data
       /\ __dict__' = st.dict
       /\ _dirty' = st.dirty
       /\ call' = [op |-> "__setattr__", name |-> name, value |-> value,
                   outcome |-> "return", pre_dirty |-> _dirty] @@ NoStorage
       /\ prev' = Brief(call)
       /\ UNCHANGED <<cls, saved, buildVars>>

\* instance.save()
Save ==
    LET about == [op |-> "save", name |-> None, value |-> None, pre_dirty |-> _dirty]
        bad == Validate(cls, _data, __dict__)
        doc == Doc(cls, _data)
        id == GetAttr(cls, _data, __dict__, "id")
        op == WriteOp(id)
    IN /\ prev' = Brief(call)
       /\ UNCHANGED <<cls, __dict__, buildVars>>
       /\ IF ShortCircuit(_dirty)
          THEN /\ call' = about @@ [outcome |-> "return"] @@ NoStorage
               /\ UNCHANGED <<_data, _dirty, saved>>
          ELSE IF bad # None
          THEN /\ call' = about @@ [outcome |-> "ValidationError"] @@ NoStorage
               /\ UNCHANGED <<_data, _dirty, saved>>
          ELSE \E result \in Results(cls, op, doc) :
                 LET sent == [storage |-> op,
                              key |-> IF op = "update" THEN id ELSE None,
                              doc |-> doc, errors |-> result.errors,
                              generated_keys |-> result.generated_keys]
                 IN IF Raises(result)
                    THEN /\ call' = about @@ [outcome |-> "RqlOperationError"] @@ sent
                         /\ UNCHANGED <<_data, _dirty, saved>>
                    ELSE /\ call' = about @@ [outcome |-> "return"] @@ sent
                         /\ _dirty' = FALSE
                         /\ _data' = Adopt(_data, result)
                         /\ saved' = TRUE

\* instance.delete()
Delete ==
    LET id == GetValue(cls, _data, "id")
    IN /\ call' = [op |-> "delete", name |-> None, value |-> None,
                   outcome |-> "return", pre_dirty |-> _dirty] @@
                  (IF Truthy(id)
                   THEN [storage |-> "delete", key |-> id, doc |-> <<>>,
                         errors |-> 0, generated_keys |-> <<>>]
                   ELSE NoStorage)
       /\ prev' = Brief(call)
       /\ UNCHANGED <<cls, _data, __dict__, _dirty, saved, buildVars>>

\* ------------------------------------------------------------------------
\* Spec: one instance of a class the metaclass built
\* ------------------------------------------------------------------------

\* The classes instances are made of: a scalar field, a scalar and a
\* reference field, a reference field next to a scalar field that has the
\* name of its storage key, and a primary key named like a declared field.
InstanceBodies ==
    { Body({Member("name", StringField, 0)}, FALSE, NoMeta, <<>>),
      Body({Member("name", StringField, 0), Member("author", ReferenceField, 1)},
           FALSE, NoMeta, <<>>),
      Body({Member("author", ReferenceField, 0), Member("author_id", StringField, 1)},
           FALSE, NoMeta, <<>>),
      Body({Member("name", StringField, 0)}, TRUE,
           ("primary_key_field" :> "name"), <<>>) }

InstanceClasses == { BuildClass(<<"A">>, RootDocument, b) : b \in InstanceBodies }

\* An attribute name no class declares.
Undeclared == "note"

\* The keyword arguments of a construction: none or one.
Kwargs(c) == {<<>>} \cup { << <<n, v>> >> : n \in OdKeys(c.fields), v \in Values }

NoCall == [op |-> "none", outcome |-> "return", storage |-> "none", pre_dirty |-> TRUE]

Init ==
    /\ defs = <<>>
    /\ classes = <<RootDocument>>
    /\ cls \in InstanceClasses
    /\ \E kwargs \in Kwargs(cls) :
         LET st == New(cls, kwargs)
         IN /\ _data = st.data
            /\ __dict__ = st.dict
            /\ _dirty = st.dirty
    /\ call = [op |-> "__init__", name |-> None, value |-> None,
               outcome |-> "return", pre_dirty |-> TRUE] @@ NoStorage
    /\ prev = NoCall
    /\ saved = FALSE

SetDeclared == \E name \in OdKeys(cls.fields), value \in Values : Assign(name, value)

SetUndeclared == Assign(Undeclared, "k1")

Next == SetDeclared \/ SetUndeclared \/ Save \/ Delete

Spec == Init /\ [][Next]_vars

\* ------------------------------------------------------------------------
\* SpecBuild: class statements run through the metaclass
\* ------------------------------------------------------------------------

\* class <name>(<classes[base]>): <body>
DefineClass(name, base, body) ==
    /\ Len(defs) < MaxClasses
    /\ defs' = Append(defs, [name |-> name, base |-> base, body |-> body])
    /\ classes' = Append(classes, BuildClass(name, classes[base], body))
    /\ UNCHANGED instVars

InitBuild ==
    /\ defs = <<>>
    /\ classes = <<RootDocument>>
    /\ cls = RootDocument
    /\ _data = <<>>
    /\ __dict__ = <<>>
    /\ _dirty = TRUE
    /\ call = NoCall
    /\ prev = NoCall
    /\ saved = FALSE

Define ==
    \E name \in ClassNames, base \in DOMAIN classes, body \in Bodies :
        DefineClass(name, base, body)

NextBuild == Define

SpecBuild == InitBuild /\ [][NextBuild]_vars

\* ------------------------------------------------------------------------
\* Properties
\* ------------------------------------------------------------------------

Declared == OdKeys(cls.fields)

\* The step is an assignment to a declared field.
AssignsDeclared == call'.op = "__setattr__" /\ call'.name \in Declared

\* The value an assignment stores: a naive datetime with UTC attached.
Stored(v) == IF v = NaiveDT THEN UtcDT ELSE v

\* C1, per assignment: assigning a declared field its current effective
\* value leaves the dirty flag as it was, assigning it another value makes
\* the instance dirty.
C1_Assignment ==
    AssignsDeclared =>
        IF GetValue(cls, _data, call'.name) = Stored(call'.value)
        THEN _dirty' = _dirty
        ELSE _dirty' = TRUE

\* C1, per state: a newly constructed instance is dirty, and after a save()
\* that returned the instance is not dirty.
C1_State ==
    /\ call.op = "__init__" => _dirty
    /\ (call.op = "save" /\ call.outcome = "return") => ~_dirty

\* C1: dirty tracking. A new instance is dirty; an assignment of a declared
\* field changes the dirty flag only when the value differs from the field's
\* effective value, and then sets it; a save() that returns clears it.
C1_DirtyTracking == [](C1_State) /\ [][C1_Assignment]_vars

\* C1 witness: after a save, a declared field that was never stored was
\* assigned and the instance is still clean (the value was its default).
C1_Witness ==
    /\ call.op = "__setattr__"
    /\ call.name = "name"
    /\ prev.op = "save"
    /\ saved
    /\ ~_dirty

\* Storage writes a call issued.
Writes(cl) == IF cl.storage \in {"insert", "update"} THEN 1 ELSE 0

\* Two consecutive save() calls, the first on a dirty instance.
TwoSaves == call.op = "save" /\ prev.op = "save" /\ prev.pre_dirty

\* C2 as stated: from a dirty instance, two consecutive save() calls issue
\* exactly one storage operation, and the second issues none and returns.
C2_Original ==
    TwoSaves =>
        /\ Writes(prev) + Writes(call) = 1
        /\ call.storage = "none"
        /\ call.outcome = "return"

\* C2 amended: from a dirty instance, when the first of two consecutive
\* save() calls returns, the two issue exactly one storage operation, and
\* the second issues none and returns.
C2_Idempotent ==
    (TwoSaves /\ prev.outcome = "return") =>
        /\ Writes(prev) + Writes(call) = 1
        /\ call.storage = "none"
        /\ call.outcome = "return"

\* C2 witness: a save() that wrote and returned, then a save() that did not
\* touch storage.
C2_Witness ==
    /\ TwoSaves
    /\ prev.outcome = "return"
    /\ prev.storage = "insert"
    /\ call.storage = "none"

\* C3 as stated: after a save() whose storage result reports zero errors and
\* carries generated keys, the id attribute reads as the first generated key
\* and the instance is not dirty.
C3_Claim ==
    (call.op = "save" /\ call.storage # "none" /\ call.errors = 0
        /\ call.generated_keys # <<>>) =>
        /\ GetAttr(cls, _data, __dict__, "id") = call.generated_keys[1]
        /\ ~_dirty

\* C4 as stated: the wire document of a storage insert has no entry under
\* the configured primary-key name.
C4_Claim ==
    (call.op = "save" /\ call.storage = "insert") =>
        MetaGet(cls.Meta, "primary_key_field") \notin DOMAIN call.doc

\* C5 as stated: a save() whose storage result reports a non-zero error
\* count raises the operation error and leaves the instance dirty; it
\* returns, with the flag cleared, only when no error is reported.
C5_Claim ==
    (call.op = "save" /\ call.storage # "none") =>
        /\ call.errors # 0 => (call.outcome = "RqlOperationError" /\ _dirty)
        /\ call.outcome = "return" => call.errors = 0

\* Some declared field's effective value fails the field's validity
\* predicate, the identifier field being exempt while its value is absent.
SomeInvalid(c, d) ==
    \E i \in DOMAIN c.fields :
        LET name == c.fields[i][1]
            v == GetValue(c, d, name)
        IN /\ ~(name = "id" /\ v = None)
           /\ ~IsValid(c.fields[i][2], v)

\* C6, per step: a save() of a dirty instance with an invalid field raises
\* the validation error, issues no storage operation and leaves the field
\* storage and the dirty flag as they were.
C6_Step ==
    (call'.op = "save" /\ _dirty /\ SomeInvalid(cls, _data)) =>
        /\ call'.outcome = "ValidationError"
        /\ call'.storage = "none"
        /\ _data' = _data
        /\ _dirty' = _dirty

\* C6: validation happens before storage is touched.
C6_ValidateFirst == [][C6_Step]_vars

\* C6 witness: a save() raised the validation error on an instance that an
\* earlier save() had written.
C6_Witness ==
    /\ call.op = "save"
    /\ call.outcome = "ValidationError"
    /\ saved
    /\ SomeInvalid(cls, _data)

\* C7 as stated: every class the builder makes below the root has, in its
\* field mapping, an entry id of kind ObjectIdField.
C7_Claim ==
    \A i \in DOMAIN classes :
        ~classes[i].root =>
            /\ OdHas(classes[i].fields, "id")
            /\ OdGet(classes[i].fields, "id") = ObjectIdField

\* The class body configures table_name.
SuppliesTableName(body) == body.hasMeta /\ "table_name" \in DOMAIN body.Meta

\* C8 as stated: a class whose body supplies no table_name has its own name,
\* lowercased, as table_name, at any depth below Document.
C8_Claim ==
    \A i \in DOMAIN defs :
        ~SuppliesTableName(defs[i].body) =>
            classes[i + 1].Meta["table_name"] = Lower(defs[i].name)

\* C9, per step: once a save() has written and the instance holds an
\* identifier in storage (a non-empty one, the reading that favours the
\* claim), a save() that reaches storage issues an update keyed by that
\* identifier.
C9_Step ==
    (call'.op = "save" /\ call'.storage # "none" /\ saved
        /\ Truthy(GetValue(cls, _data, "id"))) =>
        /\ call'.storage = "update"
        /\ call'.key = GetValue(cls, _data, "id")

\* C9 as stated: at most one insert per instance.
C9_Claim == [][C9_Step]_vars

\* The key of the wire document that carries a field.
WireKey(c, name) ==
    LET key == IF name = "id" THEN MetaGet(c.Meta, "primary_key_field") ELSE name
    IN IF FieldOf(c, name) = ReferenceField THEN key \o "_id" ELSE key

\* The wire document carries field b under its own key with b's value; a
\* field that stands for the primary key and has no value has no entry.
Carries(c, d, b) ==
    LET v == GetValue(c, d, b)
        doc == Doc(c, d)
        pk == MetaGet(c.Meta, "primary_key_field")
    IN IF (b = "id" \/ b = pk) /\ v = None THEN TRUE
       ELSE /\ WireKey(c, b) \in DOMAIN doc
            /\ doc[WireKey(c, b)] = IF Truthy(v) THEN ToRethink(FieldOf(c, b), v) ELSE Null

\* C10, per step: an assignment to a declared field a leaves the effective
\* value of every other declared field b as it was, and the wire document
\* built afterwards carries b.
C10_Step ==
    AssignsDeclared =>
        \A b \in Declared \ {call'.name} :
            /\ GetValue(cls, _data', b) = GetValue(cls, _data, b)
            /\ Carries(cls, _data', b)

\* C10 as stated: field assignments do not interfere.
C10_Claim == [][C10_Step]_vars

====
